---- MODULE Spec2Model ----
(***************************************************************************)
(* A model of poly_exp.hpp: the summed_span value type, the two maximum    *)
(* subarray algorithms (exhaustive and decrease-by-half) and the           *)
(* exhaustive subset sum search.                                           *)
(*                                                                         *)
(* Positions are the 0-based offsets from input.begin() that the source    *)
(* uses; At(in, k) reads the element at offset k.  The library is built    *)
(* with its assertions enabled.  A call either returns a value or ends the *)
(* program abnormally ("aborted").                                         *)
(***************************************************************************)
EXTENDS Integers, Sequences, FiniteSets

VARIABLES
    input,       \* the caller's vector<int>, never mutated
    pc,          \* "idle", or the name of the function that has been called
    low,         \* arguments of a crossing_max_subarray / recurse call
    middle,
    high,
    onLeft,      \* locals of the outermost maximum_subarray_recurse frame
    onRight,
    crossing,
    returned,    \* which local that frame returned: "onLeft", "onRight", "crossing"
    result,      \* the summed_span a max-subarray call returned (or its abort)
    target,      \* argument of subset_sum_exh
    largestInt,  \* the uint64_t largestInt of subset_sum_exh, as a set of bits
    subset       \* the std::optional<std::vector<int>> subset_sum_exh returned

vars == <<input, pc, low, middle, high, onLeft, onRight, crossing, returned,
          result, target, largestInt, subset>>

----------------------------------------------------------------------------
(* Bounds of the model and constants of the program.                       *)

MaxLen == 4

Sentinel == -99999999

IntWidth == 32

Uint64Width == 64

MaxSubsetLen == 63

Vals == {-2, -1, 0, 1, Sentinel}

Targets == (-3 .. 2) \cup {Sentinel}

SeqsOfLen(n) == [1 .. n -> Vals]

Inputs == UNION {SeqsOfLen(n) : n \in 1 .. MaxLen}

Zeros(n) == [k \in 1 .. n |-> 0]

WideInputs == {Zeros(n) : n \in 1 .. MaxSubsetLen}

At(in, k) == in[k + 1]

----------------------------------------------------------------------------
(* summed_span                                                             *)

NoSpan == [kind |-> "none", begin |-> 0, end |-> 0, sum |-> 0]

\* summed_span(begin, end, sum): the assertion begin < end ends the program.
summed_span(begin, end, sum) ==
    IF begin < end
    THEN [kind |-> "span", begin |-> begin, end |-> end, sum |-> sum]
    ELSE [kind |-> "aborted", begin |-> begin, end |-> end, sum |-> 0]

\* std::accumulate(begin, end, 0) over [begin, end); only read for begin <= end.
RECURSIVE Accumulate(_, _, _)
Accumulate(in, begin, end) ==
    IF begin >= end THEN 0
    ELSE At(in, begin) + Accumulate(in, begin + 1, end)

\* summed_span(begin, end): the sum is accumulated before the delegated
\* constructor asserts.  With begin > end the accumulation runs off the end of
\* the vector, and with begin = end the assertion fails: every outcome is an
\* abnormal end of the program.
summed_span_range(in, begin, end) ==
    IF begin < end
    THEN summed_span(begin, end, Accumulate(in, begin, end))
    ELSE summed_span(begin, end, 0)

IsSpan(s) == s.kind = "span"

----------------------------------------------------------------------------
(* max_subarray_exh                                                        *)

\* The k and l loops that total input[from .. to-1].
RECURSIVE SumLoop(_, _, _)
SumLoop(in, from, to) ==
    IF from < to THEN At(in, from) + SumLoop(in, from + 1, to) ELSE 0

ExhInnerBoundOffByOne(n) == n - 1

\* The bound of the j loop: j <= n.
ExhInnerBound(n) == n

\* The i and j loops, carrying the running best [b, e).
RECURSIVE ExhLoop(_, _, _, _, _)
ExhLoop(in, i, j, b, e) ==
    LET n == Len(in) IN
    IF ~(i <= n - 1) THEN <<b, e>>
    ELSE IF ~(j <= ExhInnerBound(n)) THEN ExhLoop(in, i + 1, i + 2, b, e)
    ELSE LET sumItoJ == SumLoop(in, i, j)
             sumBtoE == SumLoop(in, b, e)
         IN  IF sumItoJ > sumBtoE
             THEN ExhLoop(in, i, j + 1, i, j)
             ELSE ExhLoop(in, i, j + 1, b, e)

max_subarray_exh(in) ==
    LET be == ExhLoop(in, 0, 1, 0, 1)
        b == be[1]
        e == be[2]
    IN  IF e = Len(in)
        THEN summed_span_range(in, b, Len(in))
        ELSE summed_span_range(in, b, e)

----------------------------------------------------------------------------
(* crossing_max_subarray                                                   *)

\* The leftward scan from middle down to low; yields the final sumL and b.
RECURSIVE ScanLeft(_, _, _, _, _, _)
ScanLeft(in, i, lo, trueSum, sumL, b) ==
    IF ~(i >= lo) THEN [sum |-> sumL, pos |-> b]
    ELSE LET t == trueSum + At(in, i)
         IN  IF t > sumL
             THEN ScanLeft(in, i - 1, lo, t, t, i)
             ELSE ScanLeft(in, i - 1, lo, t, sumL, b)

\* The rightward scan from middle + 1 up to high; yields the final sumR and e.
RECURSIVE ScanRight(_, _, _, _, _, _)
ScanRight(in, j, hi, trueSum, sumR, e) ==
    IF ~(j <= hi) THEN [sum |-> sumR, pos |-> e]
    ELSE LET t == trueSum + At(in, j)
         IN  IF t > sumR
             THEN ScanRight(in, j + 1, hi, t, t, j)
             ELSE ScanRight(in, j + 1, hi, t, sumR, e)

crossing_max_subarray(in, lo, mid, hi) ==
    LET sumL == Sentinel
        sumR == sumL
        b == ScanLeft(in, mid, lo, 0, sumL, 0).pos
        e == ScanRight(in, mid + 1, hi, 0, sumR, 0).pos
    IN  IF e + 1 = Len(in)
        THEN summed_span_range(in, b, Len(in))
        ELSE summed_span_range(in, b, e + 1)

----------------------------------------------------------------------------
(* maximum_subarray_recurse and max_subarray_dbh                           *)

CombineCrossingOnTie(l, r, c) ==
    IF (c.sum >= l.sum) /\ (c.sum >= r.sum) THEN "crossing"
    ELSE IF (l.sum > r.sum) /\ (l.sum > c.sum) THEN "onLeft"
    ELSE "onRight"

\* The two if statements that pick which of onLeft, onRight and crossing is
\* returned.
Combine(l, r, c) ==
    IF (c.sum > l.sum) /\ (c.sum > r.sum) THEN "crossing"
    ELSE IF (l.sum > r.sum) /\ (l.sum > c.sum) THEN "onLeft"
    ELSE "onRight"

\* The locals of one frame, in the order the code computes them, and what the
\* frame returns; a call that ends the program leaves the later locals unset
\* and is itself the outcome.
RECURSIVE RecurseFrame(_, _, _)
RecurseFrame(in, lo, hi) ==
    IF lo = hi
    THEN [onLeft |-> NoSpan, onRight |-> NoSpan, crossing |-> NoSpan,
          returned |-> "base", ret |-> summed_span_range(in, lo, lo + 1)]
    ELSE
    LET avg == (lo + hi) \div 2
        l == RecurseFrame(in, lo, avg).ret
    IN  IF ~IsSpan(l)
        THEN [onLeft |-> l, onRight |-> NoSpan, crossing |-> NoSpan,
              returned |-> "none", ret |-> l]
        ELSE
        LET r == RecurseFrame(in, avg + 1, hi).ret
        IN  IF ~IsSpan(r)
            THEN [onLeft |-> l, onRight |-> r, crossing |-> NoSpan,
                  returned |-> "none", ret |-> r]
            ELSE
            LET c == crossing_max_subarray(in, lo, avg, hi)
            IN  IF ~IsSpan(c)
                THEN [onLeft |-> l, onRight |-> r, crossing |-> c,
                      returned |-> "none", ret |-> c]
                ELSE LET pick == Combine(l, r, c)
                     IN  [onLeft |-> l, onRight |-> r, crossing |-> c,
                          returned |-> pick,
                          ret |-> CASE pick = "crossing" -> c
                                    [] pick = "onLeft" -> l
                                    [] pick = "onRight" -> r]

maximum_subarray_recurse(in, lo, hi) == RecurseFrame(in, lo, hi).ret

max_subarray_dbh(in) == maximum_subarray_recurse(in, 0, Len(in) - 1)

----------------------------------------------------------------------------
(* subset_sum_exh                                                          *)
(*                                                                         *)
(* A uint64_t is modelled by the set of positions of its 1 bits, so that   *)
(* values beyond the model checker's integers can be stated.  The loop     *)
(* counter i is a natural number; every run modelled here returns, or      *)
(* leaves the loop, while i is small.                                      *)

\* The int expression 1 << input.size(), as the bits of a 32-bit int.  The
\* literal 1 is an int, so the shift is done at int width.  A count of 31
\* yields the sign bit.  A count of 32 or more is undefined: the hardware
\* either uses the count modulo the width or shifts every bit out.
ShiftLeftInt(n) ==
    IF n < IntWidth THEN {{n}}
    ELSE {{n % IntWidth}, {}}

\* The conversion of that int to uint64_t: sign extension.
ToUint64(bits) ==
    IF (IntWidth - 1) \in bits
    THEN bits \cup ((IntWidth - 1) .. (Uint64Width - 1))
    ELSE bits

\* The values uint64_t largestInt = 1 << input.size() can take.
LargestIntOutcomes(n) == {ToUint64(b) : b \in ShiftLeftInt(n)}

\* (i >> j & 1) == 1, for a counter i below 2^(IntWidth - 1).
BitSet(i, j) == j < IntWidth - 1 /\ (i \div (2 ^ j)) % 2 = 1

BitsOf(i) == {k \in 0 .. (IntWidth - 2) : BitSet(i, k)}

\* a < b for two uint64_t values given by their bits.
LessBits(a, b) ==
    \E k \in b \ a :
        \A m \in (k + 1) .. (Uint64Width - 1) : (m \in a) = (m \in b)

NullOpt == [present |-> FALSE, value |-> <<>>]

Present(candidate) == [present |-> TRUE, value |-> candidate]

\* The k loop that totals the candidate into x.
RECURSIVE CandidateSum(_)
CandidateSum(candidate) ==
    IF Len(candidate) = 0 THEN 0
    ELSE Head(candidate) + CandidateSum(Tail(candidate))

IsMatchAnySize(candidate, tgt) == CandidateSum(candidate) = tgt

\* candidate.size() > 0 && x == target
IsMatch(candidate, tgt) ==
    Len(candidate) > 0 /\ CandidateSum(candidate) = tgt

\* The j loop for one mask i: the candidate grows by the elements whose bit is
\* set and is tested after every position.
RECURSIVE InnerLoop(_, _, _, _, _)
InnerLoop(in, tgt, i, j, candidate) ==
    IF ~(j < Len(in)) THEN NullOpt
    ELSE LET grown == IF BitSet(i, j)
                      THEN Append(candidate, At(in, j))
                      ELSE candidate
         IN  IF IsMatch(grown, tgt)
             THEN Present(grown)
             ELSE InnerLoop(in, tgt, i, j + 1, grown)

RECURSIVE MaskLoopDescending(_, _, _, _)
MaskLoopDescending(in, tgt, i, largest) ==
    LET m == (2 ^ Len(in)) - 1 - i IN
    IF ~LessBits(BitsOf(i), largest) THEN NullOpt
    ELSE LET found == InnerLoop(in, tgt, m, 0, <<>>)
         IN  IF found.present THEN found
             ELSE MaskLoopDescending(in, tgt, i + 1, largest)

\* The i loop over the masks 0, 1, ... while i < largestInt.
RECURSIVE MaskLoop(_, _, _, _)
MaskLoop(in, tgt, i, largest) ==
    IF ~LessBits(BitsOf(i), largest) THEN NullOpt
    ELSE LET found == InnerLoop(in, tgt, i, 0, <<>>)
         IN  IF found.present THEN found
             ELSE MaskLoop(in, tgt, i + 1, largest)

subset_sum_exh(in, tgt, largest) == MaskLoop(in, tgt, 0, largest)

----------------------------------------------------------------------------
(* The state machine: a caller holds one input and calls one function.     *)

Idle ==
    /\ pc = "idle"
    /\ low = 0 /\ middle = 0 /\ high = 0
    /\ onLeft = NoSpan /\ onRight = NoSpan /\ crossing = NoSpan
    /\ returned = "none"
    /\ result = NoSpan
    /\ target = 0
    /\ largestInt = {}
    /\ subset = NullOpt

Init ==
    /\ input \in Inputs
    /\ Idle

InitWide ==
    /\ input \in WideInputs
    /\ Idle

MaxSubarrayExh ==
    /\ pc = "idle"
    /\ Len(input) > 0
    /\ pc' = "max_subarray_exh"
    /\ result' = max_subarray_exh(input)
    /\ UNCHANGED <<input, low, middle, high, onLeft, onRight, crossing,
                   returned, target, largestInt, subset>>

MaxSubarrayDbh ==
    /\ pc = "idle"
    /\ Len(input) > 0
    /\ pc' = "max_subarray_dbh"
    /\ result' = max_subarray_dbh(input)
    /\ UNCHANGED <<input, low, middle, high, onLeft, onRight, crossing,
                   returned, target, largestInt, subset>>

CrossingMaxSubarray(lo, mid, hi) ==
    /\ pc = "idle"
    /\ 0 <= lo /\ lo <= mid /\ mid < hi /\ hi <= Len(input) - 1
    /\ pc' = "crossing_max_subarray"
    /\ low' = lo /\ middle' = mid /\ high' = hi
    /\ result' = crossing_max_subarray(input, lo, mid, hi)
    /\ UNCHANGED <<input, onLeft, onRight, crossing, returned, target,
                   largestInt, subset>>

MaximumSubarrayRecurse(lo, hi) ==
    /\ pc = "idle"
    /\ 0 <= lo /\ lo <= hi /\ hi <= Len(input) - 1
    /\ LET frame == RecurseFrame(input, lo, hi)
       IN  /\ onLeft' = frame.onLeft
           /\ onRight' = frame.onRight
           /\ crossing' = frame.crossing
           /\ returned' = frame.returned
           /\ result' = frame.ret
    /\ pc' = "maximum_subarray_recurse"
    /\ low' = lo /\ high' = hi
    /\ UNCHANGED <<input, middle, target, largestInt, subset>>

SubsetSumExh(tgt) ==
    /\ pc = "idle"
    /\ Len(input) > 0
    /\ Len(input) < MaxSubsetLen + 1
    /\ \E largest \in LargestIntOutcomes(Len(input)) :
          /\ largestInt' = largest
          /\ subset' = subset_sum_exh(input, tgt, largest)
    /\ pc' = "subset_sum_exh"
    /\ target' = tgt
    /\ UNCHANGED <<input, low, middle, high, onLeft, onRight, crossing,
                   returned, result>>

Positions == 0 .. (MaxLen - 1)

Next ==
    \/ MaxSubarrayExh
    \/ MaxSubarrayDbh
    \/ \E lo, mid, hi \in Positions : CrossingMaxSubarray(lo, mid, hi)
    \/ \E lo, hi \in Positions : MaximumSubarrayRecurse(lo, hi)
    \/ \E tgt \in Targets : SubsetSumExh(tgt)

Spec == Init /\ [][Next]_vars

\* Inputs of every length the contract allows, all zeros, searched for the
\* target 0: the runs of subset_sum_exh on long inputs that end quickly.
NextWide == SubsetSumExh(0)

SpecWide == InitWide /\ [][NextWide]_vars

----------------------------------------------------------------------------
(* What the claims speak of, defined without the algorithms above.         *)

\* The arithmetic total of the elements at positions b .. e-1.
RECURSIVE TrueSum(_, _, _)
TrueSum(in, b, e) ==
    IF e <= b THEN 0 ELSE TrueSum(in, b, e - 1) + in[e]

\* The elements of in at the 1-based indices S, in input order.
RECURSIVE PickFrom(_, _, _)
PickFrom(in, S, k) ==
    IF k > Len(in) THEN <<>>
    ELSE (IF k \in S THEN <<in[k]>> ELSE <<>>) \o PickFrom(in, S, k + 1)

Pick(in, S) == PickFrom(in, S, 1)

\* The indices a mask selects: bit k-1 of m stands for the k-th element.
MaskIndices(m, n) == {k \in 1 .. n : (m \div (2 ^ (k - 1))) % 2 = 1}

MaskSum(in, m) ==
    LET S == MaskIndices(m, Len(in)) IN TrueSum(Pick(in, S), 0, Cardinality(S))

\* The sums of the non-empty subsets of the first k elements.
RECURSIVE SubsetSums(_, _)
SubsetSums(in, k) ==
    IF k = 0 THEN {}
    ELSE LET s == SubsetSums(in, k - 1)
         IN  s \cup {x + in[k] : x \in s} \cup {in[k]}

SubsetExists(in, tgt) == tgt \in SubsetSums(in, Len(in))

\* 2^n as a uint64_t.
PowerOfTwo(n) == {n}

FrameComplete ==
    /\ pc = "maximum_subarray_recurse"
    /\ low < high
    /\ IsSpan(onLeft) /\ IsSpan(onRight) /\ IsSpan(crossing)

----------------------------------------------------------------------------
(* The claims.                                                             *)

\* C1: for every non-empty input, max_subarray_dbh returns a span whose sum is
\* the sum of the span max_subarray_exh returns.
C1_DbhAgreesWithExh ==
    pc = "max_subarray_dbh" =>
        /\ IsSpan(result)
        /\ result.sum = max_subarray_exh(input).sum

\* C1, the failing input <<1, 0>>: the left half (sum 1) ties with the
\* crossing span (sum 1) and the right half (sum 0) is returned.
C1_TieInput ==
    /\ pc = "max_subarray_dbh"
    /\ input = <<1, 0>>
    /\ result.sum = 0
    /\ max_subarray_exh(input).sum = 1

\* C2: max_subarray_exh returns a span [b, e) with 0 <= b < e <= n whose stored
\* sum is the true sum of input[b .. e-1] and is at least the sum of every
\* non-empty contiguous range of the input.
C2_ExhIsMaximal ==
    pc = "max_subarray_exh" =>
        /\ IsSpan(result)
        /\ 0 <= result.begin /\ result.begin < result.end
        /\ result.end <= Len(input)
        /\ result.sum = TrueSum(input, result.begin, result.end)
        /\ \A i \in 0 .. (Len(input) - 1) : \A j \in (i + 1) .. Len(input) :
              TrueSum(input, i, j) <= result.sum

\* C2 witness: the maximal range is interior and longer than one element.
C2_Witness ==
    /\ pc = "max_subarray_exh"
    /\ IsSpan(result)
    /\ result.begin > 0 /\ result.end < Len(input)
    /\ result.end - result.begin >= 2

\* C3: a present result of subset_sum_exh is non-empty, is an order-preserving
\* selection of the input and sums to target.
C3_PresentIsValidSubset ==
    (pc = "subset_sum_exh" /\ subset.present) =>
        /\ Len(subset.value) > 0
        /\ \E S \in SUBSET (1 .. Len(input)) : subset.value = Pick(input, S)
        /\ TrueSum(subset.value, 0, Len(subset.value)) = target

\* C3 witness: target 0 is met by a selection of two or more elements.
C3_Witness ==
    /\ pc = "subset_sum_exh"
    /\ target = 0
    /\ subset.present
    /\ Len(subset.value) >= 2

\* C4: subset_sum_exh returns the absent result if and only if no non-empty
\* subset of the input sums to target.
C4_AbsentIffNoSubset ==
    pc = "subset_sum_exh" =>
        ((~subset.present) <=> ~SubsetExists(input, target))

\* C4, the failing input: 32 zeros and target 0; the subset <<0>> exists and
\* the search reports absence.
C4_WideInput ==
    /\ pc = "subset_sum_exh"
    /\ Len(input) = IntWidth
    /\ SubsetExists(input, target)
    /\ ~subset.present

\* C5: for every length n in 1 .. 63 the mask bound largestInt equals 2^n.
C5_MaskBoundIsPowerOfTwo ==
    pc = "subset_sum_exh" => largestInt = PowerOfTwo(Len(input))

\* C5, the failing input: 63 elements, and a bound that is not 2^63.
C5_Length63 ==
    /\ pc = "subset_sum_exh"
    /\ Len(input) = MaxSubsetLen
    /\ largestInt # PowerOfTwo(MaxSubsetLen)

\* C6: for low < high, maximum_subarray_recurse returns a span whose sum is at
\* least each of the left, right and crossing sums.
C6_ResultIsGreatestOfThree ==
    FrameComplete =>
        /\ result.sum >= onLeft.sum
        /\ result.sum >= onRight.sum
        /\ result.sum >= crossing.sum

\* C6, the failing input <<1, 0>> over [0, 1].
C6_TieInput ==
    /\ FrameComplete
    /\ input = <<1, 0>>
    /\ onLeft.sum = 1 /\ crossing.sum = 1
    /\ result.sum = 0

\* C7: every summed_span that max_subarray_exh and max_subarray_dbh construct
\* has begin < end (a call ends with the construction that failed, if any).
C7_SpansAreNonEmpty ==
    pc \in {"max_subarray_exh", "max_subarray_dbh"} => result.begin < result.end

\* C7, the failing input <<0, 0, Sentinel>>: the crossing span is [1, 1).
C7_SentinelInput ==
    /\ pc = "max_subarray_dbh"
    /\ input = <<0, 0, Sentinel>>
    /\ result.kind = "aborted"
    /\ result.begin = 1 /\ result.end = 1

\* C8: for low <= mid < high, crossing_max_subarray returns a span [b, e) with
\* low <= b <= mid and mid + 2 <= e <= high + 1 whose sum is the greatest among
\* the ranges that straddle mid; of the equally good left ends b is the one
\* nearest mid, and of the equally good right ends e - 1 is the one nearest
\* mid + 1.
C8_CrossingIsBestStraddle ==
    pc = "crossing_max_subarray" =>
        /\ IsSpan(result)
        /\ low <= result.begin /\ result.begin <= middle
        /\ middle + 2 <= result.end /\ result.end <= high + 1
        /\ result.sum = TrueSum(input, result.begin, result.end)
        /\ \A b \in low .. middle : \A e \in (middle + 2) .. (high + 1) :
              TrueSum(input, b, e) <= result.sum
        /\ \A b \in low .. middle :
              TrueSum(input, b, middle + 1)
                  = TrueSum(input, result.begin, middle + 1)
              => b <= result.begin
        /\ \A e \in (middle + 2) .. (high + 1) :
              TrueSum(input, middle + 1, e)
                  = TrueSum(input, middle + 1, result.end)
              => e >= result.end

\* C8, the failing input <<0, Sentinel>> with low = mid = 0, high = 1: the
\* span returned is [0, 1), which does not reach position mid + 1.
C8_SentinelInput ==
    /\ pc = "crossing_max_subarray"
    /\ input = <<0, Sentinel>>
    /\ result.begin = 0 /\ result.end = 1

C10_FirstMaskSelection ==
    (pc = "subset_sum_exh" /\ subset.present) =>
        \E m \in 1 .. ((2 ^ Len(input)) - 1) :
            /\ MaskSum(input, m) = target
            /\ \A m2 \in 1 .. (m - 1) : MaskSum(input, m2) # target
            /\ subset.value = Pick(input, MaskIndices(m, Len(input)))

\* C10 witness: on an input of more than three elements the first matching
\* mask is 6 (the second and third elements), so the match is met by the test
\* inside the inner loop before its last position.
C10_Witness ==
    /\ pc = "subset_sum_exh"
    /\ subset.present
    /\ Len(input) > 3
    /\ MaskSum(input, 6) = target
    /\ \A m2 \in 1 .. 5 : MaskSum(input, m2) # target
    /\ subset.value = <<input[2], input[3]>>

====
